---------------------------- MODULE Spec2Model ----------------------------
(***************************************************************************)
(* A model of the Pseudo Mica plugin in its three relevant revisions:      *)
(*   "main"     src/main.ts             (CupertinoCompanion, fixed blur)   *)
(*   "part_000" src/unnamed/part_000    (PseudoMica with settings, the     *)
(*                                       transform written into the style  *)
(*                                       element's text)                   *)
(*   "part_006" src/unnamed/part_006    (PseudoMica with settings, the     *)
(*                                       transform kept in CSS variables)  *)
(* and of the edge-extension step of processWallpaperImage (src/main.ts    *)
(* and src/unnamed/part_001).                                              *)
(*                                                                         *)
(* Every JavaScript callback is one action: it runs to completion.  An     *)
(* await on the host or the OS (loadData, saveData, exec, readFile) splits *)
(* a handler into the part before it and the part after it; a chain of     *)
(* awaits that only resolve promises (microtasks) stays in one action.     *)
(***************************************************************************)
EXTENDS Integers, Sequences, FiniteSets, TLC

\* ------------------------------------------------------------- bounds
\* window coordinates range over 0..MaxCoord
MaxCoord == 1
\* number of slider changes and reset clicks in one behaviour
MaxChanges == 1
\* number of animation-frame callbacks that may be pending at once
MaxPending == 3
\* image width/height and margin of the pixel-level model
MaxImg == 2
MaxMargin == 2

\* -------------------------------------------------- program constants
DefaultBlur == 240
SliderMin == 10
SliderMax == 500
MainBlur == 240

Versions == {"main", "part_000", "part_006"}
SettingsVersions == {"part_000", "part_006"}
Platforms == {"win32", "darwin", "linux"}
Coords == 0 .. MaxCoord
\* the window positions tried: the origin and the points of both axes
Pos == {p \in Coords \X Coords : p[1] = 0 \/ p[2] = 0}
ScreenSizes == {<<3, 2>>}
\* the values the slider can deliver (setLimits(10, 500, 10)), reduced to
\* the two ends and the default
BlurValues == {SliderMin, DefaultBlur, SliderMax}
\* what the shell command may print: nothing, white space only, or a path
\* followed by a line break
Stdouts == {<<>>, <<"nl">>, <<"path", "nl">>}
WhiteSpace == {"nl", "sp"}

\* ------------------------------------------------------------ helpers
RemoveAt(s, i) == [j \in 1 .. (Len(s) - 1) |-> IF j < i THEN s[j] ELSE s[j + 1]]

\* a handle (index into a queue of pending callbacks) after the entry at
\* index i has left the queue: 0 is null, -1 a handle of a callback that is
\* no longer pending
ShiftHandle(h, i) == IF h = i THEN -1 ELSE IF h > i THEN h - 1 ELSE h

Neg(p) == <<0 - p[1], 0 - p[2]>>

RECURSIVE TrimLeft(_)
TrimLeft(s) == IF s # <<>> /\ Head(s) \in WhiteSpace THEN TrimLeft(Tail(s)) ELSE s

RECURSIVE TrimRight(_)
TrimRight(s) == IF s # <<>> /\ s[Len(s)] \in WhiteSpace THEN TrimRight(SubSeq(s, 1, Len(s) - 1)) ELSE s

Trim(s) == TrimRight(TrimLeft(s))

ObjectAssign(a, b) == [k \in (DOMAIN a) \cup (DOMAIN b) |-> IF k \in DOMAIN b THEN b[k] ELSE a[k]]

NoKeys == [k \in {} |-> 0]
DEFAULT_SETTINGS == [blurSize |-> DefaultBlur]

NoImage == [src |-> <<>>, blur |-> 0, size |-> <<0, 0>>]
\* the text of the style element: the body::before rule's width, height and
\* background-image, and its transform: a literal translate(x, y) (<<>>: no
\* transform rule) or, with usesVars, translate(var(--pseudo-mica-translate-x),
\* var(--pseudo-mica-translate-y))
EmptyText == [width |-> 0, height |-> 0, image |-> NoImage, transform |-> <<>>, usesVars |-> FALSE]


\* -------------------------------------------------------------- state
VARIABLES
  version,        \* which revision of the plugin runs
  platform,       \* process.platform / Platform.isWin
  os,             \* what the shell command and the wallpaper file do on this machine
  screen,         \* <<window.screen.width, window.screen.height>>
  screenPos,      \* <<window.screenX, window.screenY>>
  layoutReady,    \* the host's workspace.layoutReady
  layoutCb,       \* the plugin's callback waits in the host's onLayoutReady queue
  saved,          \* the host's data.json for this plugin (a map from keys to values)
  phase,          \* "new", "loading" (onload awaits loadData), "loaded", "unloaded"
  settings,       \* this.settings (no keys: still undefined)
  isInitialized,  \* this.isInitialized
  bodyClasses,    \* document.body.classList
  styleAttached,  \* this.styleEl is a child of document.head
  styleText,      \* this.styleEl.textContent
  cssVars,        \* --pseudo-mica-translate-x/y on document.body.style (<<>>: not set)
  lastPosition,   \* this.lastPosition.(x, y)
  frameRequest,   \* this.frameRequest (a handle into rafs)
  resizeTimer,    \* this.resizeTimer (a handle into timers)
  runs,           \* the initializations in flight
  loops,          \* one entry per setupPositionTracking call: its closure
  rafs,           \* the callbacks pending in requestAnimationFrame, oldest first
  timers,         \* the pending setTimeout callbacks, oldest first
  saves,          \* the saveSettings calls awaiting saveData, oldest first
  tabOpen,        \* the settings tab is displayed
  tabShown,       \* the value the slider was drawn with
  tabDraws,       \* number of display() calls
  changes,        \* number of slider changes and reset clicks so far
  errors,         \* number of console.error calls
  unhandled,      \* an exception left a callback of the plugin
  buttonPos,      \* darwin: setWindowButtonPosition was called
  pxVariant,      \* pixel model: whose processWallpaperImage ("main" or "part_001")
  pxImage,        \* pixel model: the wallpaper, [w, h, px]
  pxMargin,       \* pixel model: BLUR_SIZE
  pxCanvas,       \* pixel model: the work canvas, a colour per <<x, y>>
  pxStep          \* pixel model: -1 unused, 0 before drawImage(img), 1 image drawn,
                  \*   2..5 after each edge, 6 corners done (the blur comes next)

pixelVars == <<pxVariant, pxImage, pxMargin, pxCanvas, pxStep>>
envVars == <<version, platform, os, screen, screenPos, layoutReady, pixelVars>>
domVars == <<bodyClasses, styleAttached, styleText, cssVars>>
trackVars == <<lastPosition, frameRequest, resizeTimer, loops, rafs, timers>>
tabVars == <<tabOpen, tabShown, tabDraws, changes, saves>>
vars == <<envVars, domVars, trackVars, tabVars, layoutCb, saved, phase, settings, isInitialized, runs, errors, unhandled, buttonPos>>

IsWin == platform = "win32"
IsSettingsVersion == version \in SettingsVersions

\* what data.json may hold before the plugin is loaded: nothing (loadData
\* gives null, which Object.assign skips like an object with no keys), a
\* blurSize, or only a key this revision does not know
StoredData == {NoKeys, [blurSize |-> SliderMax], [legacy |-> 1]}

\* the machine the plugin runs on, fixed for a behaviour: the shell command
\* fails, or prints one of Stdouts; the file at the printed path is a
\* readable image ("ok"), cannot be read ("unreadable": fs.readFile rejects)
\* or is no image ("noimage": img.onload never fires)
OsStates == {[exec |-> [ok |-> FALSE, stdout |-> <<>>], file |-> "none"]} \cup {[exec |-> [ok |-> TRUE, stdout |-> o], file |-> "none"] : o \in {<<>>, <<"nl">>}} \cup {[exec |-> [ok |-> TRUE, stdout |-> <<"path", "nl">>], file |-> f] : f \in {"ok", "unreadable", "noimage"}}

Run(st, path, blur, target) == [st |-> st, path |-> path, blur |-> blur, target |-> target]

PluginInit ==
  /\ version \in Versions
  /\ platform \in Platforms
  /\ os \in IF platform = "win32" THEN OsStates ELSE {[exec |-> [ok |-> FALSE, stdout |-> <<>>], file |-> "none"]}
  /\ screen \in ScreenSizes
  /\ screenPos \in Pos
  /\ layoutReady \in BOOLEAN
  /\ layoutCb = FALSE
  /\ saved \in IF version = "main" THEN {NoKeys} ELSE StoredData
  /\ phase = "new"
  /\ settings = NoKeys
  /\ isInitialized = FALSE
  /\ bodyClasses \in IF version = "main" THEN {{}, {"mica-off"}} ELSE {{}}
  /\ styleAttached = FALSE
  /\ styleText = EmptyText
  /\ cssVars = <<>>
  /\ lastPosition = <<0, 0>>
  /\ frameRequest = 0
  /\ resizeTimer = 0
  /\ runs = <<>>
  /\ loops = <<>>
  /\ rafs = <<>>
  /\ timers = <<>>
  /\ saves = <<>>
  /\ tabOpen = FALSE
  /\ tabShown = 0
  /\ tabDraws = 0
  /\ changes = 0
  /\ errors = 0
  /\ unhandled = FALSE
  /\ buttonPos = FALSE

NoPixels == [w |-> 0, h |-> 0, px |-> <<>>]
PixelsUnused ==
  /\ pxVariant = "main"
  /\ pxImage = NoPixels
  /\ pxMargin = 0
  /\ pxCanvas = <<>>
  /\ pxStep = -1

Init == PluginInit /\ PixelsUnused

\* ------------------------------------------------- the plugin's code
\* processWallpaperImage, as far as the plugin can tell results apart: the
\* file it read, the blur radius, and the size of the final canvas (the
\* target size; in part_006 the image's own size, written <<0, 0>>)
processWallpaperImage(v, imagePath, target, blurSize) == [src |-> imagePath, blur |-> blurSize, size |-> IF v = "part_006" THEN <<0, 0>> ELSE target]

\* a getWallpaperPath without its try/catch: a failing exec rejects
getWallpaperPathNoCatch(outcome) == [threw |-> ~outcome.ok, path |-> IF outcome.ok THEN Trim(outcome.stdout) ELSE <<>>]

\* getWallpaperPath after exec has settled: stdout.trim(), or "" from the
\* catch block.  threw: the exception leaves getWallpaperPath
getWallpaperPath(outcome) == [threw |-> FALSE, path |-> IF outcome.ok THEN Trim(outcome.stdout) ELSE <<>>]

\* a template with the screen's width and height interchanged
StylesSwapped(v, scr, base64Image) == [width |-> scr[2], height |-> scr[1], image |-> base64Image, transform |-> <<>>, usesVars |-> v = "part_006"]

\* the template string `styles` of initializeWallpaper
Styles(v, scr, base64Image) == [width |-> scr[1], height |-> scr[2], image |-> base64Image, transform |-> <<>>, usesVars |-> v = "part_006"]

\* a condition that needs both coordinates to differ
PositionChangedBoth(last, sx, sy) == last[1] # sx /\ last[2] # sy

\* a condition that makes updatePosition write on every call
PositionChangedAlways(last, sx, sy) == TRUE

\* the condition of updatePosition
PositionChanged(last, sx, sy) == last[1] # sx \/ last[2] # sy

\* the body of updatePosition up to its requestAnimationFrame call, for the
\* closure whose captured `styles` is given
updatePosition(v, styles, last, pos, text, vars0) ==
  IF PositionChanged(last, pos[1], pos[2])
  THEN [lastPosition |-> pos,
        styleText |-> IF v = "part_006" THEN text ELSE [styles EXCEPT !.transform = Neg(pos)],
        cssVars |-> IF v = "part_006" THEN Neg(pos) ELSE vars0]
  ELSE [lastPosition |-> last, styleText |-> text, cssVars |-> vars0]

\* a handleResize that starts a timer without clearing the pending one
handleResizeNoClear(l, tm, rt) == [timers |-> Append(tm, l), resizeTimer |-> Len(tm) + 1]

\* handleResize of loop l: clear this.resizeTimer when set, start a timer
handleResize(l, tm, rt) ==
  LET cleared == IF rt > 0 THEN RemoveAt(tm, rt) ELSE tm
  IN [timers |-> Append(cleared, l), resizeTimer |-> Len(cleared) + 1]

\* a resize event calls the registered listeners in the order of their
\* registration; ls: the loops whose listener is registered, from index l on
RECURSIVE DispatchResize(_, _, _)
DispatchResize(l, tm, rt) ==
  IF l > Len(loops) THEN [timers |-> tm, resizeTimer |-> rt]
  ELSE IF loops[l].listener
       THEN LET r == handleResize(l, tm, rt) IN DispatchResize(l + 1, r.timers, r.resizeTimer)
       ELSE DispatchResize(l + 1, tm, rt)

\* the callback given to this.register by setupPositionTracking (one per
\* loop), on the handles it finds
Cleanup(st) ==
  [rafs |-> IF st.frameRequest > 0 THEN RemoveAt(st.rafs, st.frameRequest) ELSE st.rafs,
   frameRequest |-> IF st.frameRequest > 0 THEN -1 ELSE st.frameRequest,
   timers |-> IF st.resizeTimer > 0 THEN RemoveAt(st.timers, st.resizeTimer) ELSE st.timers,
   resizeTimer |-> IF st.resizeTimer > 0 THEN -1 ELSE st.resizeTimer]

\* the host runs the registered callbacks, the last registered first
RECURSIVE RunCleanups(_, _)
RunCleanups(n, st) == IF n = 0 THEN st ELSE RunCleanups(n - 1, Cleanup(st))

\* initializeWallpaper up to its first await that leaves the plugin:
\* getWallpaperPath returns "" at once off Windows, and then
\* initializeWallpaper returns and its caller adds is-translucent;
\* on Windows the shell command is started
initializeWallpaper(plat, rs, classes) ==
  IF plat # "win32"
  THEN [runs |-> rs, bodyClasses |-> classes \cup {"is-translucent"}]
  ELSE [runs |-> Append(rs, Run("exec", <<>>, 0, <<0, 0>>)), bodyClasses |-> classes]

\* a guard without the platform test
SkipWhenInitialized(init, plat) == init

\* the guard of the onLayoutReady callback of the settings revisions
SkipInitialization(init, plat) == init \/ plat # "win32"

\* the callback the plugin hands to workspace.onLayoutReady
layoutReadyCallback(v, plat, init, rs, classes) ==
  IF v = "main"
  THEN [isInitialized |-> init, runs |-> Append(rs, Run("initialize", <<>>, 0, <<0, 0>>)), bodyClasses |-> classes]
  ELSE IF SkipInitialization(init, plat)
       THEN [isInitialized |-> init, runs |-> rs, bodyClasses |-> classes]
       ELSE LET w == initializeWallpaper(plat, rs, classes)
            IN [isInitialized |-> TRUE, runs |-> w.runs, bodyClasses |-> w.bodyClasses]

\* a loadSettings that takes the stored data as they are
loadSettingsNoDefaults(data) == ObjectAssign(NoKeys, data)

\* Object.assign({}, DEFAULT_SETTINGS, await this.loadData())
loadSettings(data) == ObjectAssign(ObjectAssign(NoKeys, DEFAULT_SETTINGS), data)

\* workspace.onLayoutReady(cb): the host calls cb at once when the layout is
\* ready and queues it otherwise
onLayoutReady(v, plat, ready, init, rs, classes) ==
  IF ready
  THEN LET c == layoutReadyCallback(v, plat, init, rs, classes)
       IN [layoutCb |-> FALSE, isInitialized |-> c.isInitialized, runs |-> c.runs, bodyClasses |-> c.bodyClasses]
  ELSE [layoutCb |-> TRUE, isInitialized |-> init, runs |-> rs, bodyClasses |-> classes]

\* ------------------------------------------------------------ actions
\* main.ts onload: add hello-cupertino, defer the rest to onLayoutReady
OnloadMain ==
  /\ version = "main"
  /\ phase = "new"
  /\ phase' = "loaded"
  /\ LET r == onLayoutReady(version, platform, layoutReady, isInitialized, runs, bodyClasses \cup {"hello-cupertino"})
     IN /\ layoutCb' = r.layoutCb
        /\ isInitialized' = r.isInitialized
        /\ runs' = r.runs
        /\ bodyClasses' = r.bodyClasses
  /\ UNCHANGED <<envVars, styleAttached, styleText, cssVars, trackVars, tabVars, saved, settings, errors, unhandled, buttonPos>>

\* onload of the settings revisions, up to `await this.loadData()`
OnloadSettings ==
  /\ IsSettingsVersion
  /\ phase = "new"
  /\ phase' = "loading"
  /\ UNCHANGED <<envVars, domVars, trackVars, tabVars, layoutCb, saved, settings, isInitialized, runs, errors, unhandled, buttonPos>>

\* loadData has resolved: the rest of loadSettings and of onload
LoadDataDone ==
  /\ phase = "loading"
  /\ phase' = "loaded"
  /\ settings' = loadSettings(saved)
  /\ LET r == onLayoutReady(version, platform, layoutReady, isInitialized, runs, bodyClasses)
     IN /\ layoutCb' = r.layoutCb
        /\ isInitialized' = r.isInitialized
        /\ runs' = r.runs
        /\ bodyClasses' = r.bodyClasses
  /\ UNCHANGED <<envVars, styleAttached, styleText, cssVars, trackVars, tabVars, saved, errors, unhandled, buttonPos>>

\* the host's layout becomes ready: it calls the queued callback
LayoutReady ==
  /\ ~layoutReady
  /\ layoutReady' = TRUE
  /\ IF layoutCb
     THEN LET c == layoutReadyCallback(version, platform, isInitialized, runs, bodyClasses)
          IN /\ isInitialized' = c.isInitialized
             /\ runs' = c.runs
             /\ bodyClasses' = c.bodyClasses
     ELSE UNCHANGED <<isInitialized, runs, bodyClasses>>
  /\ layoutCb' = FALSE
  /\ UNCHANGED <<version, platform, os, screen, screenPos, pixelVars, styleAttached, styleText, cssVars, trackVars, tabVars, saved, phase, settings, errors, unhandled, buttonPos>>

\* main.ts: the idle callback of onload runs initialize
Initialize(i) ==
  /\ runs[i].st = "initialize"
  /\ IF isInitialized
     THEN /\ runs' = RemoveAt(runs, i)
          /\ UNCHANGED <<isInitialized, bodyClasses, buttonPos>>
     ELSE /\ isInitialized' = TRUE
          /\ IF platform = "darwin"
             THEN /\ buttonPos' = TRUE
                  /\ runs' = RemoveAt(runs, i)
                  /\ UNCHANGED bodyClasses
             ELSE IF "mica-off" \notin bodyClasses /\ platform = "win32"
                  THEN LET w == initializeWallpaper(platform, RemoveAt(runs, i), bodyClasses)
                       IN /\ runs' = w.runs
                          /\ bodyClasses' = w.bodyClasses
                          /\ UNCHANGED buttonPos
                  ELSE /\ runs' = RemoveAt(runs, i)
                       /\ UNCHANGED <<bodyClasses, buttonPos>>
  /\ UNCHANGED <<envVars, styleAttached, styleText, cssVars, trackVars, tabVars, layoutCb, saved, phase, settings, errors, unhandled>>

\* an initialization that, when a wallpaper was found, leaves is-translucent
\* to the idle callback
ExecSettledClassDeferred(i) ==
  /\ runs[i].st = "exec"
  /\ LET g == getWallpaperPath(os.exec)
     IN /\ runs' = IF g.path = <<>> THEN RemoveAt(runs, i) ELSE [runs EXCEPT ![i] = Run("idle", g.path, 0, <<0, 0>>)]
        /\ bodyClasses' = IF g.path = <<>> THEN bodyClasses \cup {"is-translucent"} ELSE bodyClasses
  /\ UNCHANGED <<envVars, styleAttached, styleText, cssVars, trackVars, tabVars, layoutCb, saved, phase, settings, isInitialized, errors, unhandled, buttonPos>>

\* an initialization that adds is-translucent only when a wallpaper was found
ExecSettledClassWithPath(i) ==
  /\ runs[i].st = "exec"
  /\ LET g == getWallpaperPath(os.exec)
     IN /\ runs' = IF g.path = <<>> THEN RemoveAt(runs, i) ELSE [runs EXCEPT ![i] = Run("idle", g.path, 0, <<0, 0>>)]
        /\ bodyClasses' = IF g.path = <<>> THEN bodyClasses ELSE bodyClasses \cup {"is-translucent"}
  /\ UNCHANGED <<envVars, styleAttached, styleText, cssVars, trackVars, tabVars, layoutCb, saved, phase, settings, isInitialized, errors, unhandled, buttonPos>>

\* exec has settled: the rest of getWallpaperPath and of initializeWallpaper
\* (the idle callback is requested when the path is not empty), then the
\* caller's classList.add("is-translucent")
ExecSettled(i) ==
  /\ runs[i].st = "exec"
  /\ LET g == getWallpaperPath(os.exec)
     IN IF g.threw
        THEN /\ unhandled' = TRUE
             /\ runs' = RemoveAt(runs, i)
             /\ UNCHANGED <<bodyClasses>>
        ELSE /\ runs' = IF g.path = <<>> THEN RemoveAt(runs, i) ELSE [runs EXCEPT ![i] = Run("idle", g.path, 0, <<0, 0>>)]
             /\ bodyClasses' = bodyClasses \cup {"is-translucent"}
             /\ UNCHANGED unhandled
  /\ UNCHANGED <<envVars, styleAttached, styleText, cssVars, trackVars, tabVars, layoutCb, saved, phase, settings, isInitialized, errors, buttonPos>>

\* the idle callback of initializeWallpaper starts: processWallpaperImage is
\* called with the screen size and the blur size read now, and awaits the file
IdleCallback(i) ==
  /\ runs[i].st = "idle"
  /\ runs' = [runs EXCEPT ![i] = Run("proc", runs[i].path, IF version = "main" THEN MainBlur ELSE settings.blurSize, screen)]
  /\ UNCHANGED <<envVars, domVars, trackVars, tabVars, layoutCb, saved, phase, settings, isInitialized, errors, unhandled, buttonPos>>

\* setupPositionTracking: register the resize listener, start the loop (in
\* part_006 by a direct updatePosition call, otherwise by requesting a frame)
\* and register the cleanup callback
setupPositionTracking(v, styles, last, pos, text, vars0, ls, rf) ==
  LET l == Len(ls) + 1
      u == IF v = "part_006"
           THEN updatePosition(v, styles, last, pos, text, vars0)
           ELSE [lastPosition |-> last, styleText |-> text, cssVars |-> vars0]
  IN [lastPosition |-> u.lastPosition, styleText |-> u.styleText, cssVars |-> u.cssVars,
      loops |-> Append(ls, [styles |-> IF v = "part_006" THEN EmptyText ELSE styles, listener |-> TRUE]),
      rafs |-> Append(rf, l), frameRequest |-> Len(rf) + 1]

\* processWallpaperImage has resolved: the rest of the idle callback
ProcessingDone(i) ==
  /\ runs[i].st = "proc"
  /\ os.file = "ok"
  /\ LET base64Image == processWallpaperImage(version, runs[i].path, runs[i].target, runs[i].blur)
         styles == Styles(version, screen, base64Image)
         t == setupPositionTracking(version, styles, lastPosition, screenPos, styles, IF version = "part_006" THEN <<0, 0>> ELSE cssVars, loops, rafs)
     IN /\ styleAttached' = TRUE
        /\ styleText' = t.styleText
        /\ cssVars' = t.cssVars
        /\ lastPosition' = t.lastPosition
        /\ loops' = t.loops
        /\ rafs' = t.rafs
        /\ frameRequest' = t.frameRequest
  /\ runs' = RemoveAt(runs, i)
  /\ UNCHANGED <<envVars, bodyClasses, resizeTimer, timers, tabVars, layoutCb, saved, phase, settings, isInitialized, errors, unhandled, buttonPos>>

\* fs.readFile rejects (or a canvas call throws): the catch block logs
ProcessingThrows(i) ==
  /\ runs[i].st = "proc"
  /\ os.file = "unreadable"
  /\ runs' = RemoveAt(runs, i)
  /\ errors' = errors + 1
  /\ UNCHANGED <<envVars, domVars, trackVars, tabVars, layoutCb, saved, phase, settings, isInitialized, unhandled, buttonPos>>

\* the file is no image: img.onload never fires and the promise stays pending
ProcessingHangs(i) ==
  /\ runs[i].st = "proc"
  /\ os.file = "noimage"
  /\ runs' = [runs EXCEPT ![i].st = "hung"]
  /\ UNCHANGED <<envVars, domVars, trackVars, tabVars, layoutCb, saved, phase, settings, isInitialized, errors, unhandled, buttonPos>>

\* an animation frame: the oldest pending callback runs updatePosition,
\* which requests the next frame
AnimationFrame ==
  /\ rafs # <<>>
  /\ LET l == Head(rafs)
         u == updatePosition(version, loops[l].styles, lastPosition, screenPos, styleText, cssVars)
     IN /\ lastPosition' = u.lastPosition
        /\ styleText' = u.styleText
        /\ cssVars' = u.cssVars
        /\ rafs' = Append(Tail(rafs), l)
        /\ frameRequest' = Len(rafs)
  /\ UNCHANGED <<envVars, bodyClasses, styleAttached, resizeTimer, loops, timers, tabVars, layoutCb, saved, phase, settings, isInitialized, runs, errors, unhandled, buttonPos>>

\* the window is resized: every registered handleResize runs
Resize ==
  /\ \E l \in 1 .. Len(loops) : loops[l].listener
  /\ Len(rafs) < MaxPending
  /\ LET r == DispatchResize(1, timers, resizeTimer)
     IN /\ timers' = r.timers
        /\ resizeTimer' = r.resizeTimer
  /\ UNCHANGED <<envVars, domVars, lastPosition, frameRequest, loops, rafs, tabVars, layoutCb, saved, phase, settings, isInitialized, runs, errors, unhandled, buttonPos>>

\* the oldest pending resize timer expires: updatePosition runs and requests
\* a frame
TimerExpires ==
  /\ timers # <<>>
  /\ LET l == Head(timers)
         u == updatePosition(version, loops[l].styles, lastPosition, screenPos, styleText, cssVars)
     IN /\ lastPosition' = u.lastPosition
        /\ styleText' = u.styleText
        /\ cssVars' = u.cssVars
        /\ rafs' = Append(rafs, l)
        /\ frameRequest' = Len(rafs) + 1
  /\ timers' = Tail(timers)
  /\ resizeTimer' = ShiftHandle(resizeTimer, 1)
  /\ UNCHANGED <<envVars, bodyClasses, styleAttached, loops, tabVars, layoutCb, saved, phase, settings, isInitialized, runs, errors, unhandled, buttonPos>>

\* the user moves the window
WindowMove(p) ==
  /\ p # screenPos
  /\ screenPos' = p
  /\ UNCHANGED <<version, platform, os, screen, layoutReady, pixelVars, domVars, trackVars, tabVars, layoutCb, saved, phase, settings, isInitialized, runs, errors, unhandled, buttonPos>>

\* the host unloads the plugin: the registered cleanup callbacks run, each
\* also removing its own resize listener, the style element and (part_006)
\* the CSS variables; the settings tab goes away
Unload ==
  /\ phase = "loaded"
  /\ phase' = "unloaded"
  /\ tabOpen' = FALSE
  /\ LET c == RunCleanups(Len(loops), [rafs |-> rafs, frameRequest |-> frameRequest, timers |-> timers, resizeTimer |-> resizeTimer])
     IN /\ rafs' = c.rafs
        /\ frameRequest' = c.frameRequest
        /\ timers' = c.timers
        /\ resizeTimer' = c.resizeTimer
  /\ loops' = [l \in 1 .. Len(loops) |-> [loops[l] EXCEPT !.listener = FALSE]]
  /\ styleAttached' = IF loops = <<>> THEN styleAttached ELSE FALSE
  /\ cssVars' = IF loops # <<>> /\ version = "part_006" THEN <<>> ELSE cssVars
  /\ UNCHANGED <<envVars, bodyClasses, styleText, lastPosition, tabShown, tabDraws, changes, saves, layoutCb, saved, settings, isInitialized, runs, errors, unhandled, buttonPos>>

\* a saveSettings that tears the effect down and does not start it again
saveSettingsNoRestart(v, plat, ready, init, rs, classes, attached) ==
  IF init
  THEN [styleAttached |-> FALSE, layoutCb |-> layoutCb, isInitialized |-> FALSE, runs |-> rs, bodyClasses |-> classes \ {"is-translucent"}]
  ELSE [styleAttached |-> attached, layoutCb |-> layoutCb, isInitialized |-> init, runs |-> rs, bodyClasses |-> classes]

\* saveSettings after `await this.saveData(this.settings)`: tear the effect
\* down and initialize again when the plugin was initialized
saveSettings(v, plat, ready, init, rs, classes, attached) ==
  IF init
  THEN LET r == onLayoutReady(v, plat, ready, FALSE, rs, classes \ {"is-translucent"})
       IN [styleAttached |-> FALSE, layoutCb |-> r.layoutCb, isInitialized |-> r.isInitialized, runs |-> r.runs, bodyClasses |-> r.bodyClasses]
  ELSE [styleAttached |-> attached, layoutCb |-> layoutCb, isInitialized |-> init, runs |-> rs, bodyClasses |-> classes]

\* the host calls display() of the settings tab
OpenTab ==
  /\ IsSettingsVersion
  /\ phase = "loaded"
  /\ ~tabOpen
  /\ tabOpen' = TRUE
  /\ tabShown' = settings.blurSize
  /\ tabDraws' = tabDraws + 1
  /\ UNCHANGED <<envVars, domVars, trackVars, changes, saves, layoutCb, saved, phase, settings, isInitialized, runs, errors, unhandled, buttonPos>>

\* the slider's onChange, up to the await in saveSettings: saveData is
\* called with the settings as they are now
SliderChange(value) ==
  /\ tabOpen
  /\ changes < MaxChanges
  /\ value # tabShown
  /\ settings' = [settings EXCEPT !.blurSize = value]
  /\ saves' = Append(saves, [data |-> settings', redraw |-> FALSE])
  /\ tabShown' = value
  /\ changes' = changes + 1
  /\ UNCHANGED <<envVars, domVars, trackVars, tabOpen, tabDraws, layoutCb, saved, phase, isInitialized, runs, errors, unhandled, buttonPos>>

\* a reset button that redraws the tab without waiting for saveSettings
ResetClickRedrawsFirst ==
  /\ tabOpen
  /\ changes < MaxChanges
  /\ settings' = [settings EXCEPT !.blurSize = DEFAULT_SETTINGS.blurSize]
  /\ saves' = Append(saves, [data |-> settings', redraw |-> FALSE])
  /\ changes' = changes + 1
  /\ tabShown' = settings'.blurSize
  /\ tabDraws' = tabDraws + 1
  /\ UNCHANGED <<envVars, domVars, trackVars, tabOpen, layoutCb, saved, phase, isInitialized, runs, errors, unhandled, buttonPos>>

\* the reset button's onClick, up to the await in saveSettings
ResetClick ==
  /\ tabOpen
  /\ changes < MaxChanges
  /\ settings' = [settings EXCEPT !.blurSize = DEFAULT_SETTINGS.blurSize]
  /\ saves' = Append(saves, [data |-> settings', redraw |-> TRUE])
  /\ changes' = changes + 1
  /\ UNCHANGED <<envVars, domVars, trackVars, tabOpen, tabShown, tabDraws, layoutCb, saved, phase, isInitialized, runs, errors, unhandled, buttonPos>>

\* saveData has resolved (the host writes in the order of the calls): the
\* rest of saveSettings, then for the reset button this.display()
SaveDataDone ==
  /\ saves # <<>>
  /\ saved' = Head(saves).data
  /\ saves' = Tail(saves)
  /\ LET r == saveSettings(version, platform, layoutReady, isInitialized, runs, bodyClasses, styleAttached)
     IN /\ styleAttached' = r.styleAttached
        /\ layoutCb' = r.layoutCb
        /\ isInitialized' = r.isInitialized
        /\ runs' = r.runs
        /\ bodyClasses' = r.bodyClasses
  /\ IF Head(saves).redraw
     THEN /\ tabShown' = settings.blurSize
          /\ tabDraws' = tabDraws + 1
     ELSE UNCHANGED <<tabShown, tabDraws>>
  /\ UNCHANGED <<envVars, styleText, cssVars, trackVars, tabOpen, changes, phase, settings, errors, unhandled, buttonPos>>

\* the steps all revisions share
Common ==
  \/ LayoutReady
  \/ \E i \in 1 .. Len(runs) : ExecSettled(i)
  \/ \E i \in 1 .. Len(runs) : IdleCallback(i)
  \/ \E i \in 1 .. Len(runs) : ProcessingDone(i)
  \/ \E i \in 1 .. Len(runs) : ProcessingThrows(i)
  \/ \E i \in 1 .. Len(runs) : ProcessingHangs(i)
  \/ AnimationFrame
  \/ Resize
  \/ TimerExpires
  \/ \E p \in Pos : WindowMove(p)
  \/ Unload

NextMain ==
  \/ OnloadMain
  \/ \E i \in 1 .. Len(runs) : Initialize(i)
  \/ Common

NextSettings ==
  \/ OnloadSettings
  \/ LoadDataDone
  \/ OpenTab
  \/ \E value \in BlurValues : SliderChange(value)
  \/ ResetClick
  \/ SaveDataDone
  \/ Common

Next == NextMain \/ NextSettings

\* every revision
Spec == Init /\ [][Next]_vars

\* src/main.ts alone
InitMain == Init /\ version = "main"
SpecMain == InitMain /\ [][NextMain]_vars

\* src/unnamed/part_006 alone
InitSettings == Init /\ version = "part_006"
SpecSettings == InitSettings /\ [][NextSettings]_vars

\* src/unnamed/part_000 alone
InitPart000 == Init /\ version = "part_000"
SpecPart000 == InitPart000 /\ [][NextSettings]_vars

\* Promises of the host and the OS settle and idle callbacks run: the
\* scheduling the liveness claims rest on.  Nothing is assumed of the user
\* (window moves, resizes, the settings tab), of animation frames, of the
\* host's layout or of unloading.
Fairness ==
  /\ WF_vars(LoadDataDone)
  /\ WF_vars(SaveDataDone)
  /\ WF_vars(\E i \in 1 .. Len(runs) : Initialize(i))
  /\ WF_vars(\E i \in 1 .. Len(runs) : ExecSettled(i))
  /\ WF_vars(\E i \in 1 .. Len(runs) : IdleCallback(i))
  /\ WF_vars(\E i \in 1 .. Len(runs) : ProcessingDone(i))
  /\ WF_vars(\E i \in 1 .. Len(runs) : ProcessingThrows(i))

FairSpec == Spec /\ Fairness
FairSpecMain == SpecMain /\ Fairness
FairSpecSettings == SpecSettings /\ Fairness

\* ------------------------------------------------------------- claims
HasLoaded == phase \in {"loaded", "unloaded"}
Translucent == "is-translucent" \in bodyClasses
\* the translate offset in effect: no transform rule counts as (0, 0)
Offset == IF styleText.usesVars THEN (IF cssVars = <<>> THEN <<0, 0>> ELSE cssVars) ELSE IF styleText.transform = <<>> THEN <<0, 0>> ELSE styleText.transform
\* the shell prints a path and the file at it is a readable image
GoodMachine == os.exec.ok /\ Trim(os.exec.stdout) # <<>> /\ os.file = "ok"

\* C1: once loadSettings has completed, settings has a blurSize: the stored
\* one when data.json holds one, else the default 240 (as long as the user
\* has changed nothing), and slider changes and resets keep one present.
C1_BlurSizePresent ==
  (IsSettingsVersion /\ HasLoaded) =>
    /\ "blurSize" \in DOMAIN settings
    /\ settings.blurSize \in BlurValues
    /\ changes = 0 => settings.blurSize = (IF "blurSize" \in DOMAIN saved THEN saved.blurSize ELSE DefaultBlur)

\* a reset or slider change has put the default where the stored data gave none
C1_Witness == IsSettingsVersion /\ phase = "loaded" /\ "legacy" \in DOMAIN settings /\ settings.blurSize = DefaultBlur /\ changes > 0 /\ saves = <<>>

\* C2: in main.ts every updatePosition call, from an animation frame or from
\* the resize timer, ends with lastPosition equal to the window position it
\* read and the style's translate offset equal to its negation.
C2_UpdatePositionAligns ==
  [][(version = "main" /\ (AnimationFrame \/ TimerExpires)) => (lastPosition' = screenPos /\ Offset' = Neg(screenPos))]_vars

\* updatePosition has followed the window away from the origin
C2_Witness == version = "main" /\ lastPosition # <<0, 0>> /\ lastPosition = screenPos /\ styleText.transform = Neg(screenPos) /\ Len(rafs) > 1

\* C3: off Windows the settings revision never runs the shell command,
\* attaches the style element, starts position tracking or adds is-translucent.
C3_WindowsOnly ==
  (IsSettingsVersion /\ ~IsWin) => (runs = <<>> /\ ~styleAttached /\ loops = <<>> /\ rafs = <<>> /\ timers = <<>> /\ ~Translucent)

\* off Windows: loaded, layout ready, a setting changed and saved
C3_Witness == IsSettingsVersion /\ ~IsWin /\ phase = "loaded" /\ layoutReady /\ changes > 0 /\ saves = <<>> /\ saved = settings

\* C4 (as claimed): on Windows, once the plugin is loaded and the layout is
\* ready, is-translucent is eventually on body.
C4_Original == (IsWin /\ phase = "loaded" /\ layoutReady) ~> Translucent

\* C4 (amended): the same, when body does not carry mica-off (which main.ts
\* reads; the settings revisions do not).
C4_TranslucentEventually == (IsWin /\ phase = "loaded" /\ layoutReady /\ "mica-off" \notin bodyClasses) ~> Translucent

\* is-translucent is on body although the shell command failed
C4_Witness == IsWin /\ Translucent /\ ~os.exec.ok /\ version \in {"main", "part_006"}

\* the body::before rule that initializeWallpaper of main.ts is to inject
MainRule(text) == text.width = screen[1] /\ text.height = screen[2] /\ text.image = [src |-> <<"path">>, blur |-> MainBlur, size |-> screen]

\* C5: in main.ts on Windows, once getWallpaperPath has given a non-empty
\* path and when the image can be processed, the style element is eventually
\* attached and holds the body::before rule with the screen's width and
\* height and the processed wallpaper.
C5_BackgroundApplied ==
  (version = "main" /\ os.file = "ok" /\ \E i \in 1 .. Len(runs) : runs[i].st = "idle" /\ runs[i].path # <<>>) ~> (styleAttached /\ MainRule(styleText))

\* the rule is attached and updatePosition has since rewritten the text
C5_Witness == version = "main" /\ styleAttached /\ MainRule(styleText) /\ styleText.transform # <<>>

\* C6: in main.ts a failing shell command makes getWallpaperPath return ""
\* (no idle callback is ever requested), and an image that cannot be read is
\* logged once; in both cases no exception leaves the plugin, the style
\* element is never attached and position tracking is never started.
C6_FailuresSwallowed ==
  (version = "main" /\ (~os.exec.ok \/ os.file = "unreadable")) =>
    /\ ~unhandled
    /\ ~styleAttached /\ styleText = EmptyText
    /\ loops = <<>> /\ rafs = <<>> /\ timers = <<>> /\ frameRequest = 0 /\ resizeTimer = 0
    /\ ~os.exec.ok => (errors = 0 /\ \A i \in 1 .. Len(runs) : runs[i].st \in {"initialize", "exec"})
    /\ (os.file = "unreadable" /\ Translucent /\ runs = <<>>) => errors = 1

\* the image could not be read: logged, is-translucent added all the same
C6_Witness == version = "main" /\ os.file = "unreadable" /\ errors = 1 /\ Translucent

\* the condition of C7: a changed setting is being saved on an initialized
\* plugin
ChangePending == saves # <<>> /\ isInitialized
\* the state C7 promises
NewBlurApplied == Translucent /\ styleAttached /\ styleText.image.blur = settings.blurSize /\ styleText.image.src # <<>>
\* what saveSettings does once saveData has resolved on an initialized plugin
TornDownAndRestarted ==
  /\ saved' = Head(saves).data
  /\ ~styleAttached'
  /\ ~Translucent'
  /\ isInitialized'
  /\ runs' = Append(runs, Run("exec", <<>>, 0, <<0, 0>>))

C8_CurrentBlurShown ==
  (version = "part_000" /\ styleAttached /\ runs = <<>> /\ saves = <<>>) => styleText.image.blur = settings.blurSize

\* C9: the reset button sets blurSize to the default 240 whatever it was and
\* hands the settings to saveData; the tab is redrawn (other than by the
\* host opening it) only once that saveData call has resolved, in the step
\* that stores the reset settings.
C9_ResetPersistsThenRedraws ==
  /\ [][ResetClick => (settings'.blurSize = DefaultBlur /\ saves' = Append(saves, [data |-> settings', redraw |-> TRUE]) /\ tabDraws' = tabDraws)]_vars
  /\ [][(tabDraws' # tabDraws /\ tabOpen) => (saves # <<>> /\ Head(saves).redraw /\ saved' = Head(saves).data /\ saved'.blurSize = DefaultBlur /\ tabShown' = settings.blurSize)]_vars

\* a reset of a stored 500 has been saved and the tab redrawn
C9_Witness == version = "part_006" /\ tabDraws = 2 /\ "blurSize" \in DOMAIN saved /\ saved.blurSize = DefaultBlur /\ settings.blurSize = DefaultBlur /\ tabShown = DefaultBlur /\ changes = 1 /\ saves = <<>>

\* ------------------------------------ processWallpaperImage, by pixel
\* Colours are numbers; Black is a pixel nothing was drawn on (a canvas
\* created with alpha: false starts black; that of part_001 starts
\* transparent, and no image pixel has that colour either).
\* drawImage with a source rectangle is modelled by nearest sampling inside
\* the source rectangle (no blending of neighbouring source pixels).
Black == 0
Colours == {1, 2}
PixelVariants == {"main", "part_001"}

Rect(x, y, w, h) == (x .. (x + w - 1)) \X (y .. (y + h - 1))

\* document.createElement("canvas") with width and height set
NewCanvas(w, h) == [p \in Rect(0, 0, w, h) |-> Black]

\* ctx.drawImage(image, dx, dy)
drawImage(cv, image, dx, dy) ==
  [p \in DOMAIN cv |-> IF p \in Rect(dx, dy, image.w, image.h) THEN image.px[<<p[1] - dx, p[2] - dy>>] ELSE cv[p]]

\* ctx.drawImage(cv, sx, sy, sw, sh, dx, dy, dw, dh): the canvas drawn onto
\* itself, the source read as it was before the call
drawImageScaled(cv, a) ==
  [p \in DOMAIN cv |->
     IF p \in Rect(a[5], a[6], a[7], a[8])
     THEN cv[<<a[1] + ((p[1] - a[5]) * a[3]) \div a[7], a[2] + ((p[2] - a[6]) * a[4]) \div a[8]>>]
     ELSE cv[p]]

\* ctx.putImageData of a 1 x 1 ImageData
putImageData(cv, colour, x, y) == [p \in DOMAIN cv |-> IF p = <<x, y>> THEN colour ELSE cv[p]]

\* the array `edges`: top, bottom, left, right
edges(w, h, B) ==
  << <<B, B, w, 1, B, 0, w, B>>,
     <<B, h + B - 1, w, 1, B, h + B, w, B>>,
     <<B, B, 1, h, 0, B, B, h>>,
     <<w + B - 1, B, 1, h, w + B, B, B, h>> >>

\* the array `cornerPositions`
cornerPositions(w, h, B) == << <<0, 0>>, <<w + B, 0>>, <<0, h + B>>, <<w + B, h + B>> >>

\* main.ts: corner = getImageData(BLUR_SIZE, BLUR_SIZE, 1, 1), then
\* putImageData(corner, x, y) for each of cornerPositions
RECURSIVE putCorners(_, _, _, _)
putCorners(cv, colour, ps, k) == IF k > Len(ps) THEN cv ELSE putCorners(putImageData(cv, colour, ps[k][1], ps[k][2]), colour, ps, k + 1)

cornersMain(cv, w, h, B) == putCorners(cv, cv[<<B, B>>], cornerPositions(w, h, B), 1)

\* part_001: four drawImage calls, each stretching one corner pixel of the
\* image over a B x B square
cornersPart001(cv, w, h, B) ==
  LET c1 == drawImageScaled(cv, <<B, B, 1, 1, 0, 0, B, B>>)
      c2 == drawImageScaled(c1, <<w + B - 1, B, 1, 1, w + B, 0, B, B>>)
      c3 == drawImageScaled(c2, <<B, h + B - 1, 1, 1, 0, h + B, B, B>>)
  IN drawImageScaled(c3, <<w + B - 1, h + B - 1, 1, 1, w + B, h + B, B, B>>)

Images == UNION {{[w |-> w, h |-> h, px |-> f] : f \in [Rect(0, 0, w, h) -> Colours]} : <<w, h>> \in (1 .. MaxImg) \X (1 .. MaxImg)}

\* the plugin stays unloaded while the image routine is examined
PluginParked ==
  PluginInit /\ version = "main" /\ platform = "linux" /\ screenPos = <<0, 0>> /\ ~layoutReady /\ bodyClasses = {}

InitPixels ==
  /\ PluginParked
  /\ pxVariant \in PixelVariants
  /\ pxImage \in Images
  /\ pxMargin \in 1 .. MaxMargin
  /\ pxCanvas = <<>>
  /\ pxStep = 0

pluginVars == <<version, platform, os, screen, screenPos, layoutReady, domVars, trackVars, tabVars, layoutCb, saved, phase, settings, isInitialized, runs, errors, unhandled, buttonPos>>

\* set the canvas size and draw the image at (BLUR_SIZE, BLUR_SIZE)
PxDrawImage ==
  /\ pxStep = 0
  /\ pxCanvas' = drawImage(NewCanvas(pxImage.w + pxMargin * 2, pxImage.h + pxMargin * 2), pxImage, pxMargin, pxMargin)
  /\ pxStep' = 1
  /\ UNCHANGED <<pluginVars, pxVariant, pxImage, pxMargin>>

\* the next drawImage call of the edge extension
PxEdge ==
  /\ pxStep \in 1 .. 4
  /\ pxCanvas' = drawImageScaled(pxCanvas, edges(pxImage.w, pxImage.h, pxMargin)[pxStep])
  /\ pxStep' = pxStep + 1
  /\ UNCHANGED <<pluginVars, pxVariant, pxImage, pxMargin>>

\* the corners
PxCorners ==
  /\ pxStep = 5
  /\ pxCanvas' = IF pxVariant = "main" THEN cornersMain(pxCanvas, pxImage.w, pxImage.h, pxMargin) ELSE cornersPart001(pxCanvas, pxImage.w, pxImage.h, pxMargin)
  /\ pxStep' = 6
  /\ UNCHANGED <<pluginVars, pxVariant, pxImage, pxMargin>>

NextPixels == PxDrawImage \/ PxEdge \/ PxCorners

SpecPixels == InitPixels /\ [][NextPixels]_vars

Clamp(v, lo, hi) == IF v < lo THEN lo ELSE IF v > hi THEN hi ELSE v
\* the pixel of the image nearest to canvas position p
NearestImagePixel(p) == pxImage.px[<<Clamp(p[1] - pxMargin, 0, pxImage.w - 1), Clamp(p[2] - pxMargin, 0, pxImage.h - 1)>>]

\* C10: before the blur the work canvas is (w + 2B) x (h + 2B), the image
\* lies at [B, B+w) x [B, B+h), and every pixel of the margin, edge strips
\* and corner squares alike, has the colour of the nearest image pixel.
C10_ClampToEdge ==
  pxStep = 6 =>
    /\ DOMAIN pxCanvas = Rect(0, 0, pxImage.w + 2 * pxMargin, pxImage.h + 2 * pxMargin)
    /\ \A p \in DOMAIN pxCanvas : pxCanvas[p] = NearestImagePixel(p)

\* C11: in main.ts at most one resize timer is pending; every resize event
\* leaves exactly one pending, the one it started and whose handle is in
\* resizeTimer (the earlier one is cancelled); an expiring timer leaves none
\* pending and is the one updatePosition call of the burst before it.
C11_ResizeDebounced ==
  /\ [](version = "main" => Len(timers) <= 1)
  /\ [][(version = "main" /\ Resize) => (Len(timers') = 1 /\ resizeTimer' = 1 /\ rafs' = rafs /\ lastPosition' = lastPosition)]_vars
  /\ [][(version = "main" /\ TimerExpires) => (timers' = <<>> /\ Len(rafs') = Len(rafs) + 1)]_vars

\* a resize event arrived while the timer of an earlier one was pending, after
\* an earlier burst's timer had already run
C11_Witness == version = "main" /\ Len(timers) = 1 /\ resizeTimer = 1 /\ Len(rafs) = 2

\* C12: in main.ts, once setupPositionTracking has run, at most one
\* updatePosition callback is pending in requestAnimationFrame, and it is the
\* one whose handle frameRequest holds.
C12_SingleFrameLoop ==
  (version = "main" /\ loops # <<>>) => (Len(rafs) <= 1 /\ (rafs # <<>> => frameRequest = 1))

\* the cleanup callback registered by setupPositionTracking has run
CleanupHasRun == phase = "unloaded" /\ loops # <<>> /\ \A l \in 1 .. Len(loops) : ~loops[l].listener

\* C13: in main.ts, once the cleanup callback has run at unload, no
\* animation-frame request and no resize timer is pending (updatePosition
\* never runs again), no resize listener is registered and the style element
\* is detached.
C13_CleanupStopsTracking ==
  (version = "main" /\ CleanupHasRun) => (rafs = <<>> /\ timers = <<>> /\ ~styleAttached)

\* C14: in part_006, when the idle callback of a re-initialization (tracking
\* was already running) has injected the style and run setupPositionTracking,
\* the CSS variables hold the negated window position, moved or not.
C14_AlignedAfterChange ==
  [][(version = "part_006" /\ phase = "loaded" /\ loops # <<>> /\ \E i \in 1 .. Len(runs) : ProcessingDone(i)) => cssVars' = Neg(screenPos)]_vars

\* C15: in main.ts an updatePosition call, from an animation frame or from
\* the resize timer, that finds the window where lastPosition says leaves
\* lastPosition and the style element's text as they are and requests
\* exactly one animation frame, whose handle it stores in frameRequest.
C15_SkipsUnchanged ==
  /\ [][(version = "main" /\ lastPosition = screenPos /\ (AnimationFrame \/ TimerExpires)) => (lastPosition' = lastPosition /\ styleText' = styleText /\ frameRequest' = Len(rafs'))]_vars
  /\ [][(version = "main" /\ lastPosition = screenPos /\ AnimationFrame) => Len(rafs') = Len(rafs)]_vars
  /\ [][(version = "main" /\ lastPosition = screenPos /\ TimerExpires) => Len(rafs') = Len(rafs) + 1]_vars

\* the resize timer has called updatePosition on a window that never left
\* the origin: the text still has no transform rule, a frame was requested
C15_Witness == version = "main" /\ styleAttached /\ styleText.transform = <<>> /\ lastPosition = screenPos /\ Len(rafs) = 2 /\ frameRequest = 2

\* the initializations whose resize listener is registered on window
Listening == {l \in 1 .. Len(loops) : loops[l].listener}
\* the initializations whose updatePosition has a frame pending
Polling == {rafs[k] : k \in 1 .. Len(rafs)}

\* C16: in part_006, after settings changes on an initialized Windows plugin
\* and once the re-initialization has completed, the one resize listener
\* registered and the one animation-frame loop running are those of the
\* latest initialization.
C16_NoAccumulation ==
  (version = "part_006" /\ phase = "loaded" /\ changes > 0 /\ saves = <<>> /\ runs = <<>> /\ styleAttached) => (Listening = {Len(loops)} /\ Polling = {Len(loops)})

\* C17: in main.ts nothing of the effect is started once the plugin is
\* unloaded: no step attaches the style element, and no step starts position
\* tracking (a resize listener and an animation-frame loop).
C17_NothingSurvivesUnload ==
  [][(version = "main" /\ phase = "unloaded") => ((styleAttached' => styleAttached) /\ Len(loops') = Len(loops) /\ Listening' \subseteq Listening)]_vars

\* C18: on Windows the step in which initializeWallpaper returns (exec has
\* settled) adds is-translucent whatever the path, empty or not, and
\* attaches no style; nothing later removes the class when processing fails,
\* and only that step adds it.
C18_TranslucentIndependent ==
  /\ [][(IsWin /\ \E i \in 1 .. Len(runs) : ExecSettled(i)) => (Translucent' /\ styleAttached' = styleAttached)]_vars
  /\ [][(IsWin /\ \E i \in 1 .. Len(runs) : (ProcessingThrows(i) \/ ProcessingHangs(i))) => (Translucent' = Translucent /\ ~styleAttached')]_vars
  /\ [][(~Translucent /\ Translucent') => (IsWin /\ \E i \in 1 .. Len(runs) : ExecSettled(i))]_vars

\* is-translucent is on body, processing has failed and no style is attached
C18_Witness == version = "part_006" /\ IsWin /\ Translucent /\ ~styleAttached /\ errors = 1 /\ runs = <<>> /\ changes = 0

=============================================================================
